---- MODULE Spec2Model ----
(***************************************************************************)
(* lognav, src/main.cc: a Chunk of text with its line index (start_offset) *)
(* and the position calculators built on it, plus LineContent::flattern.   *)
(*                                                                         *)
(* A byte is a number (10 is '\n'), a string is a sequence of bytes, a     *)
(* std::string_view is a record [data, size]: an offset into the chunk's   *)
(* content and a byte count.  C++ indexes from 0 and TLA+ from 1; At does  *)
(* the conversion so that the operators below keep the code's offsets.     *)
(***************************************************************************)
EXTENDS Integers, Sequences, FiniteSets

VARIABLES
  content,       \* Chunk::content of the chunk under test
  start_offset,  \* Chunk::start_offset of the chunk under test
  start,         \* the Position handed to calc_end / calc_backward_end
  op,            \* the member function called last
  pos,           \* the Position returned by the last position calculator
  idx,           \* the argument of the last get_line_content call
  view,          \* the std::string_view returned by the last get_line_content
  reads,         \* the start_offset indices the last get_line_content read
  lc,            \* the LineContent flattern was last called on
  str,           \* the std::string returned by the last flattern
  wrapped,       \* the last call evaluated an unsigned subtraction below 0
  next           \* the content of the chunk composed after the one under test

vars == <<content, start_offset, start, op, pos, idx, view, reads, lc, str,
          wrapped, next>>

\* ---------------------------------------------------------------- bounds
MaxLen == 3     \* longest chunk content
MaxRow == 1     \* largest start row
MaxCol == 1     \* largest start column
MaxFrag == 1    \* longest head / tail fragment of a LineContent

\* ------------------------------------------------------------ constants
NL == 10        \* '\n', the only line terminator
LETTER == 97    \* 'a', standing for every byte that is not '\n'

\* uint32_t(0) - 1.  The program's value is 2^32 - 1; TLC's integers stop
\* at 2^31 - 1, which is used in its place: all that the code does with
\* the value is compare it with a line count, and it exceeds every one.
UINT32_MAX == 2147483647

Byte == {NL, LETTER}

RECURSIVE StringsUpTo(_)
StringsUpTo(n) ==
  IF n = 0 THEN {<<>>}
  ELSE LET shorter == StringsUpTo(n - 1)
       IN  shorter \cup {Append(s, b) : s \in {t \in shorter : Len(t) = n - 1}, b \in Byte}

Contents == StringsUpTo(MaxLen)
Fragments == StringsUpTo(MaxFrag)
Positions == [row : 0..MaxRow, column : 0..MaxCol]
Indices == (0..(MaxLen + 1)) \cup {UINT32_MAX}
Views == [data : 0..MaxLen, size : 0..MaxLen]

\* ------------------------------------------------------------- helpers
\* v[i] of a std::vector / std::string, i counted from 0
At(v, i) == v[i + 1]

\* v.back()
Back(v) == v[Len(v)]

\* a - b in uint32_t
USub32(a, b) == IF a >= b THEN a - b ELSE UINT32_MAX

\* the bytes a string_view [data, size] into string s denotes
Bytes(s, sv) == SubSeq(s, sv.data + 1, sv.data + sv.size)

\* a default-constructed std::string_view
EmptyView == [data |-> 0, size |-> 0]

\* ------------------------------------------------------- LineContent
\* LineContent::flattern: ret.append(head); ret.append(ret)
flattern(l) ==
  LET ret0 == <<>>
      ret1 == ret0 \o l.head
      ret2 == ret1 \o ret1
  IN  ret2

\* --------------------------------------------------------------- Chunk
\* the for loop of Chunk::make, from `offset` on
RECURSIVE ScanFrom(_, _, _)
ScanFrom(c, offset, so) ==
  IF offset < Len(c)
  THEN ScanFrom(c, offset + 1,
                IF At(c, offset) = NL THEN Append(so, offset + 1) ELSE so)
  ELSE so

\* make with the sentinel one byte short of the content's end
make_short_sentinel(c) ==
  LET scanned == ScanFrom(c, 0, <<0>>)
  IN  [content |-> c,
       start_offset |-> IF Back(scanned) # Len(c)
                        THEN Append(scanned, Len(c) - 1)
                        ELSE scanned]

\* make with the sentinel appended whatever the last recorded offset
make_always_sentinel(c) ==
  [content |-> c, start_offset |-> Append(ScanFrom(c, 0, <<0>>), Len(c))]

\* make recording the offset of each terminator, not the one after it
RECURSIVE ScanTerminatorsFrom(_, _, _)
ScanTerminatorsFrom(c, offset, so) ==
  IF offset < Len(c)
  THEN ScanTerminatorsFrom(c, offset + 1,
                           IF At(c, offset) = NL THEN Append(so, offset) ELSE so)
  ELSE so

make_records_terminator(c) ==
  LET scanned == ScanTerminatorsFrom(c, 0, <<0>>)
  IN  [content |-> c,
       start_offset |-> IF Back(scanned) # Len(c)
                        THEN Append(scanned, Len(c))
                        ELSE scanned]

\* Chunk::make
make(c) ==
  LET scanned == ScanFrom(c, 0, <<0>>)
  IN  [content |-> c,
       start_offset |-> IF Back(scanned) # Len(c)
                        THEN Append(scanned, Len(c))
                        ELSE scanned]

\* Chunk::continue_to_next_chunk
continue_to_next_chunk(c) == c.content # <<>> /\ Back(c.content) = NL

\* Chunk::get_line_count
get_line_count(c) == USub32(Len(c.start_offset), 1)

\* the guard letting the index equal to the line count through
out_of_range_past_count(c, i) == i > get_line_count(c)

\* the guard of Chunk::get_line_content
out_of_range(c, i) == i >= get_line_count(c)

\* the elements of start_offset that get_line_content(i) reads
get_line_content_reads(c, i) ==
  IF out_of_range(c, i) THEN {} ELSE {i, i + 1}

\* get_line_content leaving out the last byte of the line
get_line_content_drops_last_byte(c, i) ==
  IF out_of_range(c, i)
  THEN EmptyView
  ELSE LET s == At(c.start_offset, i)
           e == At(c.start_offset, i + 1)
       IN  [data |-> s, size |-> e - s - 1]

\* Chunk::get_line_content
get_line_content(c, i) ==
  IF out_of_range(c, i)
  THEN EmptyView
  ELSE LET s == At(c.start_offset, i)
           e == At(c.start_offset, i + 1)
       IN  [data |-> s, size |-> e - s]

\* Chunk::get_first_line_view
get_first_line_view(c) == get_line_content(c, 0)

\* Chunk::get_last_line_view
get_last_line_view(c) == get_line_content(c, USub32(get_line_count(c), 1))

\* calc_end without the column reset of a row that moved
calc_end_keeps_column(st, c) ==
  IF c.content = <<>>
  THEN st
  ELSE LET last_line_idx == USub32(get_line_count(c), 1)
           row1 == st.row + last_line_idx
           col2 == st.column + get_line_content(c, last_line_idx).size
       IN  IF ~continue_to_next_chunk(c)
           THEN [row |-> row1 + 1, column |-> 0]
           ELSE [row |-> row1, column |-> col2]

\* Chunk::calc_end
calc_end(st, c) ==
  IF c.content = <<>>
  THEN st
  ELSE LET last_line_idx == USub32(get_line_count(c), 1)
           row1 == st.row + last_line_idx
           col1 == IF row1 # st.row THEN 0 ELSE st.column
           col2 == col1 + get_line_content(c, last_line_idx).size
       IN  IF ~continue_to_next_chunk(c)
           THEN [row |-> row1 + 1, column |-> 0]
           ELSE [row |-> row1, column |-> col2]

\* whether calc_end takes get_line_count() - 1 of a zero line count
calc_end_wraps(c) == c.content # <<>> /\ get_line_count(c) < 1

\* calc_backward_start adding the last line whether or not it is terminated
calc_backward_start_unconditional(c) ==
  IF c.content = <<>>
  THEN [row |-> 0, column |-> 0]
  ELSE [row |-> 0,
        column |-> 0 + get_line_content(c, USub32(get_line_count(c), 1)).size]

\* Chunk::calc_backward_start
calc_backward_start(c) ==
  IF c.content = <<>>
  THEN [row |-> 0, column |-> 0]
  ELSE IF continue_to_next_chunk(c)
       THEN [row |-> 0,
             column |-> 0 + get_line_content(c, USub32(get_line_count(c), 1)).size]
       ELSE [row |-> 0, column |-> 0]

\* whether calc_backward_start takes get_line_count() - 1 of a zero count
calc_backward_start_wraps(c) ==
  c.content # <<>> /\ continue_to_next_chunk(c) /\ get_line_count(c) < 1

\* calc_backward_end without the extra row of a terminated chunk
calc_backward_end_no_extra_row(st, c) ==
  IF c.content = <<>>
  THEN st
  ELSE LET row2 == st.row + USub32(get_line_count(c), 1)
       IN  IF row2 # st.row
           THEN [row |-> row2,
                 column |-> IF At(c.content, 0) # NL
                            THEN USub32(get_first_line_view(c).size, 1)
                            ELSE 0]
           ELSE [row |-> row2,
                 column |-> st.column + get_last_line_view(c).size]

\* Chunk::calc_backward_end
calc_backward_end(st, c) ==
  IF c.content = <<>>
  THEN st
  ELSE LET row1 == st.row + USub32(get_line_count(c), 1)
           row2 == IF continue_to_next_chunk(c) THEN row1 + 1 ELSE row1
       IN  IF row2 # st.row
           THEN [row |-> row2,
                 column |-> IF At(c.content, 0) # NL
                            THEN USub32(get_first_line_view(c).size, 1)
                            ELSE 0]
           ELSE [row |-> row2,
                 column |-> st.column + get_last_line_view(c).size]

\* whether calc_backward_end takes get_line_count() - 1 of a zero count or
\* length() - 1 of an empty first line
calc_backward_end_wraps(st, c) ==
  /\ c.content # <<>>
  /\ \/ get_line_count(c) < 1
     \/ /\ calc_backward_end(st, c).row # st.row
        /\ At(c.content, 0) # NL
        /\ get_first_line_view(c).size < 1

\* the chunk under test
this == [content |-> content, start_offset |-> start_offset]

\* ---------------------------------------------------------------- Init
Init ==
  /\ \E c \in Contents :
       /\ content = make(c).content
       /\ start_offset = make(c).start_offset
  /\ start \in Positions
  /\ op = "make"
  /\ pos = [row |-> 0, column |-> 0]
  /\ idx = 0
  /\ view = EmptyView
  /\ reads = {}
  /\ lc = [head |-> <<>>, tail |-> <<>>]
  /\ str = <<>>
  /\ wrapped = FALSE
  /\ next = <<>>

\* ------------------------------------------------------------- actions
\* what a call leaves of the previous call's results
Cleared ==
  /\ pos' = [row |-> 0, column |-> 0]
  /\ idx' = 0
  /\ view' = EmptyView
  /\ reads' = {}
  /\ lc' = [head |-> <<>>, tail |-> <<>>]
  /\ str' = <<>>
  /\ wrapped' = FALSE
  /\ next' = <<>>

\* Chunk::make(c): a new chunk under test
Make ==
  \E c \in Contents :
    /\ content' = make(c).content
    /\ start_offset' = make(c).start_offset
    /\ op' = "make"
    /\ Cleared
    /\ UNCHANGED start

\* this.calc_end(start)
CalcEnd ==
  /\ op' = "calc_end"
  /\ pos' = calc_end(start, this)
  /\ wrapped' = calc_end_wraps(this)
  /\ idx' = 0 /\ view' = EmptyView /\ reads' = {}
  /\ lc' = [head |-> <<>>, tail |-> <<>>] /\ str' = <<>> /\ next' = <<>>
  /\ UNCHANGED <<content, start_offset, start>>

\* this.calc_backward_start()
CalcBackwardStart ==
  /\ op' = "calc_backward_start"
  /\ pos' = calc_backward_start(this)
  /\ wrapped' = calc_backward_start_wraps(this)
  /\ idx' = 0 /\ view' = EmptyView /\ reads' = {}
  /\ lc' = [head |-> <<>>, tail |-> <<>>] /\ str' = <<>> /\ next' = <<>>
  /\ UNCHANGED <<content, start_offset, start>>

\* this.calc_backward_end(start)
CalcBackwardEnd ==
  /\ op' = "calc_backward_end"
  /\ pos' = calc_backward_end(start, this)
  /\ wrapped' = calc_backward_end_wraps(start, this)
  /\ idx' = 0 /\ view' = EmptyView /\ reads' = {}
  /\ lc' = [head |-> <<>>, tail |-> <<>>] /\ str' = <<>> /\ next' = <<>>
  /\ UNCHANGED <<content, start_offset, start>>

\* this.get_line_content(i).  Reading start_offset past its end is
\* undefined behaviour: any view may come back.
GetLineContent ==
  \E i \in Indices :
    /\ op' = "get_line_content"
    /\ idx' = i
    /\ reads' = get_line_content_reads(this, i)
    /\ view' \in IF reads' \subseteq 0..(Len(start_offset) - 1)
                 THEN {get_line_content(this, i)}
                 ELSE Views
    /\ pos' = [row |-> 0, column |-> 0] /\ wrapped' = FALSE
    /\ lc' = [head |-> <<>>, tail |-> <<>>] /\ str' = <<>> /\ next' = <<>>
    /\ UNCHANGED <<content, start_offset, start>>

\* LineContent{head, tail}.flattern()
Flattern ==
  \E h \in Fragments, t \in Fragments :
    /\ op' = "flattern"
    /\ lc' = [head |-> h, tail |-> t]
    /\ str' = flattern([head |-> h, tail |-> t])
    /\ pos' = [row |-> 0, column |-> 0] /\ wrapped' = FALSE
    /\ idx' = 0 /\ view' = EmptyView /\ reads' = {} /\ next' = <<>>
    /\ UNCHANGED <<content, start_offset, start>>

\* make(b).calc_end(this.calc_end(start)): the end position of a chunk b
\* that follows the chunk under test
Compose ==
  \E b \in Contents :
    /\ op' = "compose"
    /\ next' = b
    /\ pos' = calc_end(calc_end(start, this), make(b))
    /\ wrapped' = (calc_end_wraps(this) \/ calc_end_wraps(make(b)))
    /\ idx' = 0 /\ view' = EmptyView /\ reads' = {}
    /\ lc' = [head |-> <<>>, tail |-> <<>>] /\ str' = <<>>
    /\ UNCHANGED <<content, start_offset, start>>

Next ==
  \/ Make
  \/ CalcEnd
  \/ CalcBackwardStart
  \/ CalcBackwardEnd
  \/ GetLineContent
  \/ Flattern
  \/ Compose

Spec == Init /\ [][Next]_vars

\* ------------------------------------------------ what the claims speak of
\* These read the line structure off the content itself, byte by byte,
\* without the index that make builds.

\* the offsets of the terminators of string s
NLOffsets(s) == {p \in 0..(Len(s) - 1) : s[p + 1] = NL}

\* s ends with a terminator
EndsWithNL(s) == s # <<>> /\ s[Len(s)] = NL

Max(S) == CHOOSE x \in S : \A y \in S : y <= x
Min(S) == CHOOSE x \in S : \A y \in S : x <= y

\* the elements of a set of numbers in ascending order
RECURSIVE Ascending(_)
Ascending(S) ==
  IF S = {} THEN <<>> ELSE <<Min(S)>> \o Ascending(S \ {Min(S)})

\* the number of lines of s: one per terminator, and one more for an
\* unterminated tail
LineCountOf(s) ==
  Cardinality(NLOffsets(s)) + (IF s # <<>> /\ ~EndsWithNL(s) THEN 1 ELSE 0)

\* the length of the first line of s, its terminator included
FirstLineLen(s) ==
  IF NLOffsets(s) = {} THEN Len(s) ELSE Min(NLOffsets(s)) + 1

\* the length of the last line of s, its terminator included
LastLineLen(s) ==
  Len(s) - Max({0} \cup {p + 1 : p \in {q \in NLOffsets(s) : q + 1 < Len(s)}})

\* line(0) .. line(n - 1) of chunk c, concatenated
RECURSIVE ConcatLines(_, _)
ConcatLines(c, n) ==
  IF n = 0 THEN <<>>
  ELSE ConcatLines(c, n - 1) \o Bytes(c.content, get_line_content(c, n - 1))

\* the six-step rule of end_position
EndPositionRule(st, s) ==
  IF s = <<>> THEN st
  ELSE LET row == st.row + (LineCountOf(s) - 1)
           base == IF row # st.row THEN 0 ELSE st.column
           column == base + LastLineLen(s)
       IN  IF ~EndsWithNL(s)
           THEN [row |-> row + 1, column |-> 0]
           ELSE [row |-> row, column |-> column]

\* the rule of end_delta as claimed: past the start row the column is 0
\* unless the first byte is the terminator
EndDeltaRuleAsClaimed(st, s) ==
  IF s = <<>> THEN st
  ELSE LET row == st.row + (LineCountOf(s) - 1) + (IF EndsWithNL(s) THEN 1 ELSE 0)
       IN  IF row # st.row
           THEN [row |-> row,
                 column |-> IF s[1] = NL THEN FirstLineLen(s) - 1 ELSE 0]
           ELSE [row |-> row, column |-> st.column + LastLineLen(s)]

\* the rule of end_delta with the test of the first byte the other way round
EndDeltaRule(st, s) ==
  IF s = <<>> THEN st
  ELSE LET row == st.row + (LineCountOf(s) - 1) + (IF EndsWithNL(s) THEN 1 ELSE 0)
       IN  IF row # st.row
           THEN [row |-> row,
                 column |-> IF s[1] = NL THEN 0 ELSE FirstLineLen(s) - 1]
           ELSE [row |-> row, column |-> st.column + LastLineLen(s)]

\* ---------------------------------------------------------------- claims

\* C1: calc_end(start) returns what the six-step rule gives for the start
\* position and the content: start when the content is empty, else row =
\* start.row + line_count - 1, column = 0 if the row moved and start.column
\* if not, plus the length of the last line, and (row + 1, 0) when the
\* content does not end with '\n'.  (5,2) with "a\nb" gives (7,0).
C1_EndPosition ==
  /\ op = "calc_end" => pos = EndPositionRule(start, content)
  /\ calc_end([row |-> 5, column |-> 2], make(<<97, NL, 98>>))
       = [row |-> 7, column |-> 0]

\* calc_end ran on a terminated chunk of several lines from a column > 0
C1_Witness ==
  /\ op = "calc_end"
  /\ pos.row # start.row
  /\ pos.column > 0
  /\ start.column > 0

\* C2 as claimed: calc_backward_end(start) returns start for empty content;
\* else row = start.row + line_count - 1, plus 1 if the content ends with
\* '\n'; past the start row column = 0 unless the first byte is '\n', and
\* then (length of first line) - 1; on the start row column = start.column
\* + length of last line.
C2_EndDeltaAsClaimed ==
  op = "calc_backward_end" => pos = EndDeltaRuleAsClaimed(start, content)

\* C2 amended: as claimed, but past the start row column = (length of the
\* first line) - 1 unless the first byte is '\n', and then 0.
C2_EndDelta ==
  op = "calc_backward_end" => pos = EndDeltaRule(start, content)

\* calc_backward_end left the start row on a chunk whose first line holds
\* more than its terminator
C2_Witness ==
  /\ op = "calc_backward_end"
  /\ pos.row # start.row
  /\ content[1] # NL
  /\ pos.column > 0

\* C3: flattern returns head followed by tail.
C3_JoinIsHeadThenTail ==
  op = "flattern" => str = lc.head \o lc.tail

\* C4: start_offset of a chunk built by make begins with 0, never
\* decreases, ends with content.length(), and get_line_count() is its
\* length less 1.
C4_LineStarts ==
  /\ start_offset[1] = 0
  /\ \A i \in 1..(Len(start_offset) - 1) : start_offset[i] <= start_offset[i + 1]
  /\ start_offset[Len(start_offset)] = Len(content)
  /\ get_line_count(this) = Len(start_offset) - 1

\* a chunk of two lines, its unterminated tail closed by the sentinel
C4_Witness ==
  /\ Len(start_offset) = 3
  /\ ~EndsWithNL(content)

\* C5: line(0), line(1), .., line(line_count - 1) of a chunk built by make,
\* concatenated in order, are its content.
C5_LinesReproduceContent ==
  ConcatLines(this, get_line_count(this)) = content

\* a chunk of at least two lines that holds both kinds of byte
C5_Witness ==
  /\ get_line_count(this) >= 2
  /\ \E i \in 1..Len(content) : content[i] # NL

\* C6: make records 0, then p + 1 for every '\n' at p, then content.length()
\* exactly when the last recorded offset differs from it; line_count is the
\* number of '\n' plus 1 for a non-empty content that does not end with
\* '\n'; empty content gives [0], 0 lines and no continuation; "abc" gives
\* [0,3], "abc\n" [0,4], "a\nb" [0,2,3].
C6_MakeRecords ==
  /\ LET recorded == <<0>> \o Ascending({p + 1 : p \in NLOffsets(content)})
     IN  start_offset = IF recorded[Len(recorded)] # Len(content)
                        THEN Append(recorded, Len(content))
                        ELSE recorded
  /\ get_line_count(this) = LineCountOf(content)
  /\ content = <<>> =>
       /\ start_offset = <<0>>
       /\ get_line_count(this) = 0
       /\ ~continue_to_next_chunk(this)
  /\ make(<<97, 98, 99>>).start_offset = <<0, 3>>
  /\ make(<<97, 98, 99, NL>>).start_offset = <<0, 4>>
  /\ make(<<97, NL, 98>>).start_offset = <<0, 2, 3>>

\* a chunk that starts with an empty line and ends with a terminator: the
\* scan records both offsets and no sentinel is added
C6_Witness ==
  /\ Len(content) >= 2
  /\ content[1] = NL
  /\ EndsWithNL(content)
  /\ Len(start_offset) = Cardinality(NLOffsets(content)) + 1

\* C7: calc_backward_start returns row 0 and, as column, the length of the
\* last line if the content ends with '\n', and 0 if not.
C7_StartDelta ==
  op = "calc_backward_start" =>
    /\ pos.row = 0
    /\ pos.column = IF EndsWithNL(content) THEN LastLineLen(content) ELSE 0

\* calc_backward_start ran on a terminated chunk of several lines
C7_Witness ==
  /\ op = "calc_backward_start"
  /\ pos.column > 0
  /\ Len(start_offset) >= 3

\* C8: get_line_content(i) returns [start_offset[i], start_offset[i+1]) of
\* content for i < line_count and the empty view for every other i, and
\* reads nothing outside start_offset or content.
C8_LineSpan ==
  op = "get_line_content" =>
    LET n == Len(start_offset) - 1
    IN  /\ idx < n =>
             /\ view.data = start_offset[idx + 1]
             /\ view.data + view.size = start_offset[idx + 2]
        /\ idx >= n => view = EmptyView
        /\ reads \subseteq 0..(Len(start_offset) - 1)
        /\ view.size >= 0
        /\ view.data + view.size <= Len(content)

\* get_line_content was asked for the line just past the last one of a
\* chunk that has lines
C8_Witness ==
  /\ op = "get_line_content"
  /\ idx = Len(start_offset) - 1
  /\ idx >= 1
  /\ view = EmptyView

\* C9: calc_end of a chunk b from the end position calc_end gives for a
\* chunk a is calc_end, from the same start, of the chunk made of a
\* followed by b.
C9_ForwardComposition ==
  op = "compose" => pos = calc_end(start, make(content \o next))

\* C10: start_offset of a chunk built by make increases strictly, every
\* line has at least one byte, holds '\n' only as its last byte, and every
\* line but the last ends with '\n'; no position calculator subtracts 1
\* from a line count or a first-line length of 0.
C10_NoWrap ==
  /\ \A i \in 1..(Len(start_offset) - 1) : start_offset[i] < start_offset[i + 1]
  /\ \A i \in 0..(get_line_count(this) - 1) :
       LET line == Bytes(content, get_line_content(this, i))
       IN  /\ Len(line) >= 1
           /\ \A k \in 1..(Len(line) - 1) : line[k] # NL
           /\ i < get_line_count(this) - 1 => line[Len(line)] = NL
  /\ wrapped = FALSE

\* calc_backward_end took (length of first line) - 1 of a first line that
\* is not the chunk's last
C10_Witness ==
  /\ op = "calc_backward_end"
  /\ get_line_count(this) >= 2
  /\ content[1] # NL
  /\ pos.column = FirstLineLen(content) - 1

====
